---- MODULE Spec2Model ----
(***************************************************************************)
(* Model of FrameLogger<int, std::string> (src/FrameLogger.h): a           *)
(* fixed-capacity per-frame recorder that serialises its trial indices and *)
(* rows to a text file on write() or, failing that, on destruction.        *)
(*                                                                         *)
(* Vectors are modelled as 1-based sequences: C++ slot i is element i+1.   *)
(* The output file is modelled as the string of characters it holds.       *)
(***************************************************************************)
EXTENDS Integers, Sequences, FiniteSets, TLC

(* ------------------------------ bounds --------------------------------- *)
\* largest num_trials / num_frames handed to the constructor
MaxTrials == 2
MaxFrames == 2
\* how many calls beyond capacity are explored
MaxOver == 1
\* how many add_line / add_word calls and explicit write() calls are explored
MaxRaw == 3
MaxWrites == 2
\* how many member-function calls are explored in the life of one object
MaxCalls == 4

(* ------------------------------ inputs --------------------------------- *)
\* the schema Ts... = (int, std::string) and the rows handed to add_frame
Rows == {<<1, "a">>, <<-12, "b">>}
\* a value-initialised std::tuple<int, std::string>
DefaultRow == <<0, "">>
\* what an out-of-bounds access may read or leave behind
JunkInts == {7}
JunkRows == {<<7, "?">>}
\* the strings handed to add_headline
Headlines == {"v\tname", "h2"}
\* the argument packs handed to add_line / add_word
IntTok(n) == [kind |-> "int", s |-> "", n |-> n]
StrTok(s) == [kind |-> "str", s |-> s, n |-> 0]
RawArgs == {<<StrTok("x"), IntTok(1)>>, <<StrTok("y")>>, <<StrTok("z")>>}

VARIABLES
    num_trials,    \* m_index.size()
    num_frames,    \* m_content.size()
    m_index,
    m_content,
    last_index,
    last_frame,
    log_written,
    outfile,       \* [is_open, good, content]
    headline,
    status,        \* "alive", "destroyed" or "crashed"
    signalled,     \* the error the last call raised to its caller
    index_calls,   \* last_frame as observed by each start_new_trial call
    frame_calls,   \* the row handed to each add_frame call
    nraw,          \* number of add_line / add_word calls so far
    nwrites,       \* number of explicit write() calls so far
    ncalls         \* number of member-function calls so far

vars == <<num_trials, num_frames, m_index, m_content, last_index, last_frame,
          log_written, outfile, headline, status, signalled,
          index_calls, frame_calls, nraw, nwrites, ncalls>>

store == <<num_trials, num_frames, m_index, m_content, last_index, last_frame>>
history == <<index_calls, frame_calls, nraw, nwrites>>

(* --------------------------- text conversion --------------------------- *)
Digit(d) == SubSeq("0123456789", d + 1, d + 1)

RECURSIVE NatToStr(_)
NatToStr(n) == IF n < 10 THEN Digit(n) ELSE NatToStr(n \div 10) \o Digit(n % 10)

\* operator<<(std::ostream&, int): base 10, leading minus sign
IntToStr(n) == IF n < 0 THEN "-" \o NatToStr(0 - n) ELSE NatToStr(n)

\* the text operator<< produces for one argument of add_line / add_word
TokText(t) == IF t.kind = "int" THEN IntToStr(t.n) ELSE t.s

(* ------------------------------ the sink ------------------------------- *)
Emit_prepend(f, s) == IF f.good /\ f.is_open THEN [f EXCEPT !.content = s \o @] ELSE f

\* outfile << s : a stream that is not good(), or has no open file behind it,
\* drops the characters
Emit(f, s) == IF f.good /\ f.is_open THEN [f EXCEPT !.content = @ \o s] ELSE f

\* outfile << std::endl
Endl(f) == Emit(f, "\n")

\* outfile.open(file_name, std::ios::out): truncates; failure sets failbit
OpenFile(ok) == [is_open |-> ok, good |-> ok, content |-> ""]

\* outfile.close(): closing a stream that is not open sets failbit
CloseFile(f) == [f EXCEPT !.is_open = FALSE, !.good = f.good /\ f.is_open]

(* ----------------------------- construction ---------------------------- *)
Init ==
    /\ num_trials \in 0..MaxTrials
    /\ num_frames \in 0..MaxFrames
    /\ m_index = [i \in 1..num_trials |-> 0]
    /\ m_content = [i \in 1..num_frames |-> DefaultRow]
    /\ last_index = 0
    /\ last_frame = 0
    /\ log_written = FALSE
    /\ headline = ""
    /\ \E ok \in BOOLEAN : outfile = OpenFile(ok)
    /\ status = "alive"
    /\ signalled = "none"
    /\ index_calls = <<>>
    /\ frame_calls = <<>>
    /\ nraw = 0
    /\ nwrites = 0
    /\ ncalls = 0

(* ------------------------------ operations ----------------------------- *)
add_headline(headline_in) ==
    /\ status = "alive"
    /\ ncalls < MaxCalls
    /\ ncalls' = ncalls + 1
    /\ headline' = headline_in
    /\ signalled' = "none"
    /\ UNCHANGED <<store, log_written, outfile, status, history>>

\* true while no call has gone beyond the capacity given at construction
WithinCapacity == last_index <= num_trials /\ last_frame <= num_frames

\* ++last_index / ++last_frame
Incr(n) == n + 1

TrialStart_index(n_frames, n_index) == n_index

\* the value start_new_trial stores: the frame counter at the time of the call
TrialStart(n_frames, n_index) == n_frames

start_new_trial ==
    /\ status = "alive"
    /\ ncalls < MaxCalls
    /\ ncalls' = ncalls + 1
    /\ last_index < num_trials + MaxOver
    /\ index_calls' = Append(index_calls, last_frame)
    /\ signalled' = "none"
    /\ IF last_index < num_trials
       THEN \* m_index[last_index] = last_frame; ++last_index;
            /\ m_index' = [m_index EXCEPT ![last_index + 1] = TrialStart(last_frame, last_index)]
            /\ last_index' = Incr(last_index)
            /\ UNCHANGED <<m_content, status>>
       ELSE \* m_index[last_index] is past the end of the vector: undefined
            \/ /\ status' = "crashed"
               /\ UNCHANGED <<m_index, m_content, last_index>>
            \/ \* the store lands in memory nothing else reads
               /\ last_index' = Incr(last_index)
               /\ UNCHANGED <<m_index, m_content, status>>
            \/ \* the store lands in the neighbouring buffer
               /\ \E j \in 1..num_frames, r \in JunkRows :
                      m_content' = [m_content EXCEPT ![j] = r]
               /\ last_index' = Incr(last_index)
               /\ UNCHANGED <<m_index, status>>
    /\ UNCHANGED <<num_trials, num_frames, last_frame, log_written, outfile,
                   headline, frame_calls, nraw, nwrites>>

add_frame(info_in) ==
    /\ status = "alive"
    /\ ncalls < MaxCalls
    /\ ncalls' = ncalls + 1
    /\ last_frame < num_frames + MaxOver
    /\ frame_calls' = Append(frame_calls, info_in)
    /\ signalled' = "none"
    /\ IF last_frame < num_frames
       THEN \* m_content[last_frame] = tuple(info_in...); ++last_frame;
            /\ m_content' = [m_content EXCEPT ![last_frame + 1] = info_in]
            /\ last_frame' = Incr(last_frame)
            /\ UNCHANGED <<m_index, status>>
       ELSE \* m_content[last_frame] is past the end of the vector: undefined
            \/ /\ status' = "crashed"
               /\ UNCHANGED <<m_index, m_content, last_frame>>
            \/ /\ last_frame' = Incr(last_frame)
               /\ UNCHANGED <<m_index, m_content, status>>
            \/ /\ \E j \in 1..num_trials, v \in JunkInts :
                      m_index' = [m_index EXCEPT ![j] = v]
               /\ last_frame' = Incr(last_frame)
               /\ UNCHANGED <<m_content, status>>
    /\ UNCHANGED <<num_trials, num_frames, last_index, log_written, outfile,
                   headline, index_calls, nraw, nwrites>>

RECURSIVE EmitAll_rev(_, _)
EmitAll_rev(f, ts) ==
    IF ts = <<>> THEN f
    ELSE EmitAll_rev(Emit(f, TokText(ts[Len(ts)])), SubSeq(ts, 1, Len(ts) - 1))

\* (outfile << ... << ts): the arguments left to right
RECURSIVE EmitAll(_, _)
EmitAll(f, ts) ==
    IF ts = <<>> THEN f ELSE EmitAll(Emit(f, TokText(Head(ts))), Tail(ts))

add_line_counting(ts) ==
    /\ status = "alive"
    /\ ncalls < MaxCalls
    /\ ncalls' = ncalls + 1
    /\ nraw < MaxRaw
    /\ outfile' = Endl(EmitAll(outfile, ts))
    /\ nraw' = nraw + 1
    /\ signalled' = "none"
    /\ last_frame' = Incr(last_frame)
    /\ UNCHANGED <<num_trials, num_frames, m_index, m_content, last_index,
                   log_written, headline, status, index_calls, frame_calls,
                   nwrites>>

add_line(ts) ==
    /\ status = "alive"
    /\ ncalls < MaxCalls
    /\ ncalls' = ncalls + 1
    /\ nraw < MaxRaw
    /\ outfile' = Endl(EmitAll(outfile, ts))
    /\ nraw' = nraw + 1
    /\ signalled' = "none"
    /\ UNCHANGED <<store, log_written, headline, status, index_calls,
                   frame_calls, nwrites>>

add_word(ts) ==
    /\ status = "alive"
    /\ ncalls < MaxCalls
    /\ ncalls' = ncalls + 1
    /\ nraw < MaxRaw
    /\ outfile' = EmitAll(outfile, ts)
    /\ nraw' = nraw + 1
    /\ signalled' = "none"
    /\ UNCHANGED <<store, log_written, headline, status, index_calls,
                   frame_calls, nwrites>>

\* what m_index[0 .. last_index) reads as: the slots inside the vector hold
\* what was stored, a slot past its end holds anything
IndexViews ==
    {v \in [1..last_index -> {m_index[i] : i \in 1..num_trials} \cup JunkInts] :
        \A i \in 1..last_index : i <= num_trials => v[i] = m_index[i]}

\* what m_content[0 .. last_frame) reads as
RowViews ==
    {v \in [1..last_frame -> {m_content[i] : i \in 1..num_frames} \cup JunkRows] :
        \A i \in 1..last_frame : i <= num_frames => v[i] = m_content[i]}

write_tuple_impl_notab(f, tuple) ==
    Emit(Emit(Emit(f, "\t"), IntToStr(tuple[1])), tuple[2])

\* std::apply with the fold ((outfile << "\t" << item), ...)
write_tuple_impl(f, tuple) ==
    Emit(Emit(Emit(Emit(f, "\t"), IntToStr(tuple[1])), "\t"), tuple[2])

\* for (int ri = 0; ri < last_index; ++ri) outfile << m_index[ri] << "\t";
RECURSIVE write_index_loop(_, _, _, _)
write_index_loop(f, idx, ri, n) ==
    IF ri < n
    THEN write_index_loop(Emit(Emit(f, IntToStr(idx[ri + 1])), "\t"), idx, ri + 1, n)
    ELSE f

\* for (int i = 0; i < last_frame; ++i) { outfile << i; write_tuple_impl; endl }
RECURSIVE write_row_loop(_, _, _, _)
write_row_loop(f, rows, i, n) ==
    IF i < n
    THEN write_row_loop(Endl(write_tuple_impl(Emit(f, IntToStr(i)), rows[i + 1])),
                        rows, i + 1, n)
    ELSE f

write_body_no_headline(f, idx, n_idx, rows, n_rows, hl) ==
    LET f1 == Endl(Emit(f, "trial index:"))
        f2 == write_index_loop(f1, idx, 0, n_idx)
        f3 == Endl(Endl(f2))
        f4 == Endl(Emit(f3, "fr_nr\t"))
    IN  write_row_loop(f4, rows, 0, n_rows)

write_body_header_first(f, idx, n_idx, rows, n_rows, hl) ==
    LET f1 == Endl(Emit(Emit(f, "fr_nr\t"), hl))
        f2 == Endl(Emit(f1, "trial index:"))
        f3 == write_index_loop(f2, idx, 0, n_idx)
        f4 == Endl(Endl(f3))
    IN  write_row_loop(f4, rows, 0, n_rows)

\* the stream after the body of write()
write_body(f, idx, n_idx, rows, n_rows, hl) ==
    LET f1 == Endl(Emit(f, "trial index:"))
        f2 == write_index_loop(f1, idx, 0, n_idx)
        f3 == Endl(Endl(f2))
        f4 == Endl(Emit(Emit(f3, "fr_nr\t"), hl))
    IN  write_row_loop(f4, rows, 0, n_rows)

\* write() has no condition on log_written: it serialises whenever called
WriteGuard(written) == TRUE

write_clearing ==
    /\ status = "alive"
    /\ ncalls < MaxCalls
    /\ ncalls' = ncalls + 1
    /\ nwrites < MaxWrites
    /\ nwrites' = nwrites + 1
    /\ signalled' = "none"
    /\ \/ /\ \E iv \in IndexViews, rv \in RowViews :
                outfile' = write_body(outfile, iv, last_index, rv, last_frame, headline)
          /\ log_written' = TRUE
          /\ last_index' = 0
          /\ last_frame' = 0
          /\ UNCHANGED status
       \/ /\ ~WithinCapacity
          /\ status' = "crashed"
          /\ UNCHANGED <<outfile, log_written, last_index, last_frame>>
    /\ UNCHANGED <<num_trials, num_frames, m_index, m_content, headline,
                   index_calls, frame_calls, nraw>>

write ==
    /\ status = "alive"
    /\ ncalls < MaxCalls
    /\ ncalls' = ncalls + 1
    /\ nwrites < MaxWrites
    /\ nwrites' = nwrites + 1
    /\ signalled' = "none"
    /\ \/ /\ \E iv \in IndexViews, rv \in RowViews :
                outfile' = IF WriteGuard(log_written)
                           THEN write_body(outfile, iv, last_index, rv, last_frame, headline)
                           ELSE outfile
          /\ log_written' = TRUE
          /\ UNCHANGED status
       \/ \* reading past the end of a vector may also fault
          /\ ~WithinCapacity
          /\ status' = "crashed"
          /\ UNCHANGED <<outfile, log_written>>
    /\ UNCHANGED <<store, headline, index_calls, frame_calls, nraw>>

DtorWrites_never(written) == FALSE

DtorWrites_always(written) == TRUE

\* if (!log_written) write();
DtorWrites(written) == ~written

Destructor_raising ==
    /\ status = "alive"
    /\ IF DtorWrites(log_written) /\ ~outfile.good
       THEN /\ status' = "crashed"
            /\ signalled' = "ios_base::failure"
            /\ UNCHANGED <<outfile, log_written>>
       ELSE /\ \E iv \in IndexViews, rv \in RowViews :
                  outfile' = CloseFile(IF DtorWrites(log_written)
                                       THEN write_body(outfile, iv, last_index, rv,
                                                       last_frame, headline)
                                       ELSE outfile)
            /\ log_written' = (log_written \/ DtorWrites(log_written))
            /\ status' = "destroyed"
            /\ UNCHANGED signalled
    /\ UNCHANGED <<store, headline, history, ncalls>>

\* ~FrameLogger(): the fallback write, then outfile.close()
Destructor ==
    /\ status = "alive"
    /\ \/ /\ \E iv \in IndexViews, rv \in RowViews :
                outfile' = CloseFile(IF DtorWrites(log_written)
                                     THEN write_body(outfile, iv, last_index, rv,
                                                     last_frame, headline)
                                     ELSE outfile)
          /\ log_written' = (log_written \/ DtorWrites(log_written))
          /\ status' = "destroyed"
       \/ /\ DtorWrites(log_written)
          /\ ~WithinCapacity
          /\ status' = "crashed"
          /\ UNCHANGED <<outfile, log_written>>
    /\ UNCHANGED <<store, headline, signalled, history, ncalls>>

Next ==
    \/ \E h \in Headlines : add_headline(h)
    \/ start_new_trial
    \/ \E r \in Rows : add_frame(r)
    \/ \E ts \in RawArgs : add_line(ts)
    \/ \E ts \in RawArgs : add_word(ts)
    \/ write
    \/ Destructor

Spec == Init /\ [][Next]_vars

(* ------------------------ the documented format ------------------------ *)
RECURSIVE Join(_)
Join(ss) == IF ss = <<>> THEN "" ELSE Head(ss) \o Join(Tail(ss))

EndsWith(s, t) == Len(s) >= Len(t) /\ SubSeq(s, Len(s) - Len(t) + 1, Len(s)) = t

RECURSIVE CountOcc(_, _)
CountOcc(sub, s) ==
    IF Len(s) < Len(sub) THEN 0
    ELSE (IF SubSeq(s, 1, Len(sub)) = sub THEN 1 ELSE 0) + CountOcc(sub, Tail(s))

Contains(s, sub) == \E i \in 1..(Len(s) - Len(sub) + 1) : SubSeq(s, i, i + Len(sub) - 1) = sub

Label == "trial index:\n"

\* <idx0>\t<idx1>\t...\t<idxN-1>\t
IndexLine(idxs) == Join([i \in 1..Len(idxs) |-> IntToStr(idxs[i]) \o "\t"]) \o "\n"

HeaderLine(hl) == "fr_nr\t" \o hl \o "\n"

\* <i>\t<field0>\t<field1>
RowLine(i, row) == IntToStr(i) \o "\t" \o IntToStr(row[1]) \o "\t" \o row[2] \o "\n"

RowTable(rows) == Join([i \in 1..Len(rows) |-> RowLine(i - 1, rows[i])])

Block(idxs, rows, hl) ==
    Label \o IndexLine(idxs) \o "\n" \o HeaderLine(hl) \o RowTable(rows)

\* the structured blocks the sink holds
BlockCount == CountOcc(Label, outfile.content)

\* the indices and rows the object holds
StoredIndices == SubSeq(m_index, 1, last_index)
StoredRows == SubSeq(m_content, 1, last_frame)

\* the sink was opened and has accepted everything written to it
SinkUsable == outfile.good

(* -------------------------------- claims ------------------------------- *)

\* C1: when write() was never called explicitly and no call went beyond
\* capacity, destruction leaves the sink closed and holding exactly one
\* structured block, at its end, for the indices and rows held at teardown.
C1_DtorWritesOnce ==
    (status = "destroyed" /\ nwrites = 0 /\ WithinCapacity /\ SinkUsable)
        => /\ ~outfile.is_open
           /\ BlockCount = 1
           /\ EndsWith(outfile.content, Block(StoredIndices, StoredRows, headline))

C1_Witness ==
    /\ status = "destroyed" /\ nwrites = 0 /\ WithinCapacity /\ SinkUsable
    /\ last_frame = 2 /\ last_index = 1 /\ nraw = 1
    /\ BlockCount = 1

\* C2 (as claimed): once the object is destroyed, every row handed to
\* add_frame and every index recorded by start_new_trial is in the sink, in a
\* structured block.
C2_NoDataLost ==
    (status = "destroyed" /\ WithinCapacity /\ SinkUsable)
        => /\ Contains(outfile.content, Label \o IndexLine(index_calls))
           /\ Contains(outfile.content, "\n" \o RowTable(frame_calls))

\* C3 (as claimed): the sink never holds more than one structured block.
C3_AtMostOneBlock == BlockCount <= 1

\* C4: a destruction that finds log_written set leaves the content of the
\* sink as the explicit write() left it.
C4_DtorAfterWriteAddsNothing ==
    [][(Destructor /\ log_written) => outfile'.content = outfile.content]_vars

C4_Witness ==
    /\ status = "destroyed" /\ nwrites = 1 /\ SinkUsable /\ WithinCapacity
    /\ last_frame = 1
    /\ BlockCount = 1
    /\ EndsWith(outfile.content, Block(StoredIndices, StoredRows, headline))
\* C5 (as claimed): add_frame called with last_frame = num_frames raises
\* CapacityExceeded and changes neither the counter nor any stored data.
C5_AddFrameAtCapacityRejected ==
    [][((\E r \in Rows : add_frame(r)) /\ last_frame = num_frames)
          => /\ signalled' = "CapacityExceeded"
             /\ last_frame' = num_frames
             /\ m_content' = m_content
             /\ m_index' = m_index
             /\ status' = "alive"]_vars

\* C6 (as claimed): start_new_trial called with last_index = num_trials
\* raises CapacityExceeded and changes neither the counter nor any stored data.
C6_StartTrialAtCapacityRejected ==
    [][(start_new_trial /\ last_index = num_trials)
          => /\ signalled' = "CapacityExceeded"
             /\ last_index' = num_trials
             /\ m_index' = m_index
             /\ m_content' = m_content
             /\ status' = "alive"]_vars

\* C7 (as claimed): an object whose file failed to open has reported
\* ConstructionError and has accepted no call.
C7_OpenFailureSurfaced ==
    (status = "alive" /\ ~outfile.is_open)
        => (signalled = "ConstructionError" /\ ncalls = 0)

\* a step that serialises: write(), or the destructor's fallback
Serialises == write \/ (Destructor /\ ~log_written)

\* what a step appends to the sink
Appended == SubSeq(outfile'.content, Len(outfile.content) + 1, Len(outfile'.content))

\* C8: serialising after k add_frame calls within capacity ends the sink with
\* the header line followed by exactly k row lines, line i being i and the
\* fields handed to the i-th add_frame call, each after a tab.
C8_RowTableInInsertionOrder ==
    [][(Serialises /\ WithinCapacity /\ SinkUsable)
          => /\ EndsWith(outfile'.content, HeaderLine(headline) \o RowTable(frame_calls))
             /\ CountOcc("\n", Appended) = 4 + Len(frame_calls)]_vars

C8_Witness ==
    /\ log_written /\ WithinCapacity /\ SinkUsable
    /\ Len(frame_calls) = 2 /\ frame_calls[1] # frame_calls[2]
    /\ last_index = 1
    /\ EndsWith(outfile.content, HeaderLine(headline) \o RowTable(frame_calls))

\* C9: serialising after m start_new_trial calls within capacity writes,
\* right after the label, an index line of exactly m integers, each followed
\* by a tab: the frame counter as each call found it.
C9_IndexLineRecordsCallTimeCounts ==
    [][(Serialises /\ WithinCapacity /\ SinkUsable)
          => /\ Len(index_calls) = last_index
             /\ SubSeq(Appended, 1, Len(Label \o IndexLine(index_calls)))
                   = Label \o IndexLine(index_calls)]_vars

C9_Witness ==
    /\ log_written /\ WithinCapacity /\ SinkUsable
    /\ index_calls = <<0, 0>> /\ last_frame = 1
    /\ Contains(outfile.content, Label \o "0\t0\t\n\n")

\* C10: a serialising step appends exactly the label line, the index line, a
\* blank line, the header line and the last_frame row lines, in that order
\* and with nothing after them.
C10_BlockOrder ==
    [][(Serialises /\ WithinCapacity /\ SinkUsable)
          => outfile'.content
                = outfile.content \o Block(StoredIndices, StoredRows, headline)]_vars

C10_Witness ==
    /\ log_written /\ WithinCapacity /\ SinkUsable
    /\ last_index = 0 /\ last_frame = 1 /\ nraw = 1 /\ headline # ""
    /\ EndsWith(outfile.content, Label \o "\n\n" \o HeaderLine(headline) \o RowTable(StoredRows))
\* the text of an argument pack: the text of each argument, in argument order
ArgsText(ts) == Join([i \in 1..Len(ts) |-> TokText(ts[i])])

\* C11: on a usable sink add_line appends the text of its arguments, in
\* argument order, and one line terminator; add_word appends the same without
\* the terminator; both append after everything written before.
C11_RawEmissions ==
    [][\A ts \in RawArgs :
          /\ (add_line(ts) /\ SinkUsable)
                => outfile'.content = outfile.content \o ArgsText(ts) \o "\n"
          /\ (add_word(ts) /\ SinkUsable)
                => outfile'.content = outfile.content \o ArgsText(ts)]_vars

\* add_line("x", 1); add_word("y"); add_word("z"); write()
C11_Witness ==
    /\ status = "alive" /\ SinkUsable /\ WithinCapacity
    /\ nraw = 3 /\ nwrites = 1
    /\ outfile.content = "x1\nyz" \o Block(StoredIndices, StoredRows, headline)
\* C12: the headline is empty until add_headline is called, every
\* add_headline call replaces it by its argument, nothing else changes it,
\* and a serialising step writes the header line "fr_nr", a tab and the
\* headline as it stands (just "fr_nr" and a tab when it was never set).
C12_HeaderLineLastHeadline ==
    /\ headline = ""
    /\ [][/\ \A h \in Headlines : add_headline(h) => headline' = h
          /\ (headline' # headline) => (\E h \in Headlines : add_headline(h))
          /\ (Serialises /\ WithinCapacity /\ SinkUsable)
                => /\ Contains(Appended, "\n\n" \o "fr_nr\t" \o headline \o "\n")
                   /\ CountOcc("fr_nr", Appended) = 1]_vars

\* add_headline twice with different strings, then write(): the second shows
C12_Witness ==
    /\ status = "alive" /\ SinkUsable /\ WithinCapacity /\ ncalls = 3
    /\ nwrites = 1 /\ headline = "h2"
    /\ outfile.content = Label \o "\n\n" \o "fr_nr\th2\n"

\* the headline was never set: the header line is "fr_nr" and a tab
C12_WitnessUnset ==
    /\ status = "alive" /\ SinkUsable /\ ncalls = 1 /\ nwrites = 1
    /\ outfile.content = Label \o "\n\n" \o "fr_nr\t\n"
\* C13 (as claimed): in every reachable state the counters stay within the
\* capacities given at construction, however many calls were made.
C13_CountersWithinCapacity ==
    /\ 0 <= last_frame /\ last_frame <= num_frames
    /\ 0 <= last_index /\ last_index <= num_trials

\* C14 (as claimed): in every reachable state the last_index recorded trial
\* indices are slots of m_index, non-decreasing, each between 0 and
\* last_frame and equal to the frame counter its start_new_trial call found.
C14_IndicesNonDecreasing ==
    /\ last_index <= Len(m_index)
    /\ Len(index_calls) >= last_index
    /\ \A i \in 1..last_index :
          i <= Len(m_index) /\ i <= Len(index_calls)
             => /\ 0 <= m_index[i] /\ m_index[i] <= last_frame
                /\ m_index[i] = index_calls[i]
                /\ \A j \in 1..i : m_index[j] <= m_index[i]
\* a step that is an add_line or add_word call
RawStep == \E ts \in RawArgs : add_line(ts) \/ add_word(ts)

\* a step keeps what the sink already holds and only adds after it
KeepsContent ==
    /\ Len(outfile'.content) >= Len(outfile.content)
    /\ SubSeq(outfile'.content, 1, Len(outfile.content)) = outfile.content

\* C15: an add_line or add_word call, in whatever state, changes neither
\* counter, no stored row or index, not the headline and not log_written; it
\* only appends to the sink.
C15_RawLeavesStoreAlone ==
    [][RawStep => /\ UNCHANGED <<num_trials, num_frames, m_index, m_content,
                                last_index, last_frame, headline, log_written>>
                  /\ status' = status
                  /\ KeepsContent]_vars

\* add_frame, write(), add_line("y"): the row and the guard are as before
C15_Witness ==
    /\ status = "alive" /\ SinkUsable /\ WithinCapacity
    /\ log_written /\ last_frame = 1 /\ nraw = 1 /\ ncalls = 3
    /\ outfile.content = Block(StoredIndices, StoredRows, headline) \o "y\n"

\* C16: when the stream is not usable and log_written is unset, destruction
\* (of an object no call took beyond capacity) raises nothing, completes and
\* leaves the file closed.
C16_DtorOnUnusableSinkIsSilent ==
    [][(Destructor /\ ~SinkUsable /\ ~log_written /\ WithinCapacity)
          => /\ status' = "destroyed"
             /\ signalled' = "none"
             /\ ~outfile'.is_open
             /\ outfile'.content = outfile.content]_vars

C16_Witness ==
    /\ status = "destroyed" /\ ~outfile.good /\ ~outfile.is_open
    /\ nwrites = 0 /\ log_written /\ WithinCapacity
    /\ last_frame = 1 /\ last_index = 1
    /\ outfile.content = "" /\ signalled = "none"

\* C17 (as claimed): an add_frame below capacity stores its row in slot
\* last_frame and adds one to last_frame, and no step of any operation changes
\* a row below last_frame or lowers last_frame.
C17_RowsAppendOnly ==
    [][/\ \A r \in Rows :
             (add_frame(r) /\ last_frame < num_frames)
                => /\ m_content' = [m_content EXCEPT ![last_frame + 1] = r]
                   /\ last_frame' = last_frame + 1
       /\ last_frame' >= last_frame
       /\ \A i \in 1..last_frame :
             i <= num_frames => m_content'[i] = m_content[i]]_vars

\* C18: write() changes neither counter, no stored row or index and not the
\* headline; it only appends to the sink and sets log_written, which becomes
\* set only on a serialising step, together with the last row line, and is
\* never cleared.
C18_WriteLeavesStoreAlone ==
    [][/\ write => /\ UNCHANGED <<num_trials, num_frames, m_index, m_content,
                                 last_index, last_frame, headline>>
                   /\ KeepsContent
                   /\ (status' = "alive" => log_written')
       /\ log_written => log_written'
       /\ (~log_written /\ log_written')
             => /\ Serialises
                /\ (WithinCapacity /\ SinkUsable)
                      => EndsWith(outfile'.content,
                                  HeaderLine(headline) \o RowTable(StoredRows))]_vars

C18_Witness ==
    /\ status = "alive" /\ SinkUsable /\ WithinCapacity
    /\ log_written /\ nwrites = 1 /\ ncalls = 4
    /\ last_frame = 2 /\ last_index = 1 /\ m_index[1] = 1
    /\ StoredRows = frame_calls
    /\ EndsWith(outfile.content, RowTable(StoredRows))

\* C19: add_frame, start_new_trial and add_headline leave the sink as it is;
\* every step keeps what the sink holds and adds only at its end; and the
\* content changes only on an add_line, add_word or serialising step.
C19_SinkInCallOrder ==
    [][/\ ((\E r \in Rows : add_frame(r)) \/ start_new_trial
              \/ (\E h \in Headlines : add_headline(h))) => outfile' = outfile
       /\ KeepsContent
       /\ (outfile'.content # outfile.content) => (RawStep \/ Serialises)]_vars

\* add_word("y"), write(), add_frame, add_line("z"): raw, block, raw
C19_Witness ==
    /\ status = "alive" /\ SinkUsable /\ WithinCapacity
    /\ nraw = 2 /\ nwrites = 1 /\ last_frame = 1
    /\ outfile.content = "y" \o Block(StoredIndices, <<>>, headline) \o "z\n"
====
